---- MODULE Spec2Model ----
(***************************************************************************)
(* FinGuardDashboard (frontend/frontend/src/App.js): the dashboard's React *)
(* state, its event handlers and the values derived from the state on      *)
(* every render.                                                           *)
(*                                                                         *)
(* Units.  JavaScript numbers with a fixed number of decimals are kept as  *)
(* scaled integers:                                                        *)
(*   percentages (allocation, target, drift, threshold)  tenths of 1%      *)
(*   money (price, value, totalValue)                    cents             *)
(*   quantities (qty, amount)                            hundredths        *)
(*   aiConfidence / confidence                           hundredths        *)
(***************************************************************************)
EXTENDS Integers, Sequences, FiniteSets, TLC

VARIABLES
    activeTab,            \* useState('dashboard')
    isRebalancing,        \* useState(false)
    showRebalanceModal,   \* useState(false)
    rebalanceResult,      \* useState(null)
    portfolio,            \* useState({...}), no setter is kept
    auditLog,             \* useState([...]), no setter is kept
    timers,               \* number of setTimeout callbacks scheduled and not yet run
    timerPc,              \* position inside the running timer callback
    lastEvent,            \* the handler that ran last (history)
    resolved              \* timer callbacks completed so far, counted up to MaxResolved (history)

vars == <<activeTab, isRebalancing, showRebalanceModal, rebalanceResult,
          portfolio, auditLog, timers, timerPc, lastEvent, resolved>>

----------------------------------------------------------------------------
(* Bounds of the inputs the derived values are exercised on. *)

MaxHoldings == 3

MaxResolved == 2

----------------------------------------------------------------------------
(* Literals of the component. *)

NULL == [isNull |-> TRUE]

Tabs == <<"dashboard", "audit", "settings">>

\* 125420.50
TotalValue == 12542050

\* Math.abs(h.drift) > 2.5
DriftThreshold == 25

\* (mutant) the holdings with the sign of BTC's drift lost
ProgramHoldingsSignLost ==
    << [symbol |-> "AAPL",  name |-> "Apple Inc.",     qty |-> 5000,  price |-> 17520,
        value |-> 876000,  allocation |-> 70,  target |-> 100, drift |-> -30,
        category |-> "stocks"],
       [symbol |-> "MSFT",  name |-> "Microsoft",      qty |-> 3000,  price |-> 38050,
        value |-> 1141500, allocation |-> 91,  target |-> 100, drift |-> -9,
        category |-> "stocks"],
       [symbol |-> "GOOGL", name |-> "Google",         qty |-> 2000,  price |-> 14230,
        value |-> 284600,  allocation |-> 23,  target |-> 50,  drift |-> -27,
        category |-> "stocks"],
       [symbol |-> "BTC",   name |-> "Bitcoin",        qty |-> 50,    price |-> 6200000,
        value |-> 3100000, allocation |-> 247, target |-> 150, drift |-> -97,
        category |-> "crypto"],
       [symbol |-> "ETH",   name |-> "Ethereum",       qty |-> 200,   price |-> 220000,
        value |-> 440000,  allocation |-> 35,  target |-> 50,  drift |-> -15,
        category |-> "crypto"],
       [symbol |-> "VBMFX", name |-> "Vanguard Bonds", qty |-> 25000, price |-> 11020,
        value |-> 2755000, allocation |-> 220, target |-> 250, drift |-> -30,
        category |-> "bonds"],
       [symbol |-> "SPY",   name |-> "S&P 500 ETF",    qty |-> 4000,  price |-> 44550,
        value |-> 1782000, allocation |-> 142, target |-> 150, drift |-> -8,
        category |-> "etfs"] >>

ProgramHoldings ==
    << [symbol |-> "AAPL",  name |-> "Apple Inc.",     qty |-> 5000,  price |-> 17520,
        value |-> 876000,  allocation |-> 70,  target |-> 100, drift |-> -30,
        category |-> "stocks"],
       [symbol |-> "MSFT",  name |-> "Microsoft",      qty |-> 3000,  price |-> 38050,
        value |-> 1141500, allocation |-> 91,  target |-> 100, drift |-> -9,
        category |-> "stocks"],
       [symbol |-> "GOOGL", name |-> "Google",         qty |-> 2000,  price |-> 14230,
        value |-> 284600,  allocation |-> 23,  target |-> 50,  drift |-> -27,
        category |-> "stocks"],
       [symbol |-> "BTC",   name |-> "Bitcoin",        qty |-> 50,    price |-> 6200000,
        value |-> 3100000, allocation |-> 247, target |-> 150, drift |-> 97,
        category |-> "crypto"],
       [symbol |-> "ETH",   name |-> "Ethereum",       qty |-> 200,   price |-> 220000,
        value |-> 440000,  allocation |-> 35,  target |-> 50,  drift |-> -15,
        category |-> "crypto"],
       [symbol |-> "VBMFX", name |-> "Vanguard Bonds", qty |-> 25000, price |-> 11020,
        value |-> 2755000, allocation |-> 220, target |-> 250, drift |-> -30,
        category |-> "bonds"],
       [symbol |-> "SPY",   name |-> "S&P 500 ETF",    qty |-> 4000,  price |-> 44550,
        value |-> 1782000, allocation |-> 142, target |-> 150, drift |-> -8,
        category |-> "etfs"] >>

ProgramPortfolio ==
    [ totalValue |-> TotalValue,
      target     |-> [stocks |-> 40, crypto |-> 20, bonds |-> 25, etfs |-> 15],
      current    |-> [stocks |-> 35, crypto |-> 28, bonds |-> 22, etfs |-> 15],
      holdings   |-> ProgramHoldings ]

ProgramAuditLog ==
    << [ id |-> "AL-20251018-001",
         timestamp |-> "2025-10-18T09:15:23Z",
         action |-> "Reduce BTC allocation by 9.7%",
         reason |-> "Bitcoin allocation exceeded target by 9.7%. Volatility increased by 32% over past 7 days. Risk-adjusted return optimization suggests reallocation to lower-volatility assets.",
         aiConfidence |-> 94,
         trades |-> << [action |-> "SELL", symbol |-> "BTC",   amount |-> 12,   value |-> 744000],
                       [action |-> "BUY",  symbol |-> "AAPL",  amount |-> 2500, value |-> 438000],
                       [action |-> "BUY",  symbol |-> "VBMFX", amount |-> 2800, value |-> 308500] >>,
         status |-> "pending",
         impact |-> [riskReduction |-> "12.3%", expectedReturn |-> "+2.1% annualized",
                     sharpeImprovement |-> "+0.15"] ],
       [ id |-> "AL-20251015-002",
         timestamp |-> "2025-10-15T14:22:10Z",
         action |-> "Rebalance stocks allocation",
         reason |-> "Market correction detected. Tech sector down 5.2%. Portfolio stocks allocation fell below target threshold (35% vs 40% target).",
         aiConfidence |-> 88,
         trades |-> << [action |-> "BUY",  symbol |-> "GOOGL", amount |-> 1500, value |-> 213400],
                       [action |-> "SELL", symbol |-> "VBMFX", amount |-> 2000, value |-> 220400] >>,
         status |-> "executed",
         impact |-> [riskReduction |-> "3.1%", expectedReturn |-> "+1.4% annualized",
                     sharpeImprovement |-> "+0.08"] ] >>

----------------------------------------------------------------------------
(* Inputs.  The component's own portfolio, and, to exercise the derived    *)
(* values (driftAlerts, the banner) on every side of the threshold, the    *)
(* lists of its first holdings with the drift column (and the allocation   *)
(* column with it) set to values around the threshold.                     *)

DriftValues == {-26, -25, 0, 25, 26, 97}

WithDrift(h, d) == [h EXCEPT !.drift = d, !.allocation = h.target + d]

HoldingsInputs ==
    {ProgramHoldings} \cup
    UNION { { [i \in 1..n |-> WithDrift(ProgramHoldings[i], ds[i])] :
                ds \in [1..n -> DriftValues] } : n \in 0..MaxHoldings }

PortfolioInputs == { [ProgramPortfolio EXCEPT !.holdings = hs] : hs \in HoldingsInputs }

----------------------------------------------------------------------------
(* Values derived on every render. *)

Abs(x) == IF x < 0 THEN -x ELSE x

\* (mutant) the threshold itself counted as a violation
IsViolationInclusive(h) == Abs(h.drift) >= DriftThreshold

IsViolation(h) == Abs(h.drift) > DriftThreshold

driftAlerts == SelectSeq(portfolio.holdings, IsViolation)

\* activeTab === 'dashboard' && ... driftAlerts.length > 0 && ( banner )
BannerShown == activeTab = "dashboard" /\ Len(driftAlerts) > 0

\* n.toFixed(1) of a number of tenths: integer part and one decimal digit
ToFixed1(t) == <<t \div 10, t % 10>>

\* "BTC is {over|under}weighted by {|drift|}%."
BannerText ==
    [ count   |-> Len(driftAlerts),
      subject |-> "BTC",
      weight  |-> IF driftAlerts[1].drift > 0 THEN "over" ELSE "under",
      by      |-> ToFixed1(Abs(driftAlerts[1].drift)) ]

\* (mutant) the button is never disabled
RebalanceButtonNeverDisabled == BannerShown

\* <button onClick={handleRebalance} disabled={isRebalancing}>: the button is
\* there with the banner and is disabled by isRebalancing alone; the open modal
\* is drawn over the page and disables nothing.
RebalanceButtonEnabled == BannerShown /\ ~isRebalancing

\* {showRebalanceModal && rebalanceResult && ( modal )}
ModalShown == showRebalanceModal /\ rebalanceResult # NULL

----------------------------------------------------------------------------
(* Initial state and event handlers. *)

Init ==
    /\ activeTab = "dashboard"
    /\ isRebalancing = FALSE
    /\ showRebalanceModal = FALSE
    /\ rebalanceResult = NULL
    /\ portfolio \in PortfolioInputs
    /\ auditLog = ProgramAuditLog
    /\ timers = 0
    /\ timerPc = "idle"
    /\ lastEvent = "init"
    /\ resolved = 0

\* onClick={() => setActiveTab(tab)}
setActiveTab(tab) ==
    /\ timerPc = "idle"
    /\ activeTab' = tab
    /\ lastEvent' = "setActiveTab"
    /\ UNCHANGED <<isRebalancing, showRebalanceModal, rebalanceResult,
                   portfolio, auditLog, timers, timerPc, resolved>>

\* setIsRebalancing(true); setTimeout(callback, 2500)
handleRebalance ==
    /\ timerPc = "idle"
    /\ RebalanceButtonEnabled
    /\ isRebalancing' = TRUE
    /\ timers' = timers + 1
    /\ lastEvent' = "handleRebalance"
    /\ UNCHANGED <<activeTab, showRebalanceModal, rebalanceResult,
                   portfolio, auditLog, timerPc, resolved>>

\* (mutant) the SELL BTC trade sells the whole BTC holding
CannedResultSellsHolding ==
    [ trades     |-> [auditLog[1].trades EXCEPT ![1].value = ProgramHoldings[4].value],
      impact     |-> auditLog[1].impact,
      confidence |-> auditLog[1].aiConfidence ]

\* (mutant) the confidence falls with every plan already delivered
CannedResultDecays ==
    [ trades     |-> auditLog[1].trades,
      impact     |-> auditLog[1].impact,
      confidence |-> auditLog[1].aiConfidence - resolved ]

\* the plan the timer callback builds
CannedResult ==
    [ trades     |-> auditLog[1].trades,
      impact     |-> auditLog[1].impact,
      confidence |-> auditLog[1].aiConfidence ]

\* The timer callback runs to completion; its three state updates are each
\* committed when the updates of a timer callback are not batched, so the
\* states between them are states of the component.
\* (mutant) the callback leaves isRebalancing set
TimerKeepsIsRebalancing ==
    /\ timerPc = "idle"
    /\ timers > 0
    /\ timers' = timers - 1
    /\ timerPc' = "setRebalanceResult"
    /\ lastEvent' = "timer"
    /\ UNCHANGED <<activeTab, isRebalancing, showRebalanceModal, rebalanceResult,
                   portfolio, auditLog, resolved>>

TimerSetIsRebalancing ==
    /\ timerPc = "idle"
    /\ timers > 0
    /\ timers' = timers - 1
    /\ isRebalancing' = FALSE
    /\ timerPc' = "setRebalanceResult"
    /\ lastEvent' = "timer"
    /\ UNCHANGED <<activeTab, showRebalanceModal, rebalanceResult, portfolio,
                   auditLog, resolved>>

\* (mutant) the callback opens the modal where it should store the plan
TimerOpensModalFirst ==
    /\ timerPc = "setRebalanceResult"
    /\ showRebalanceModal' = TRUE
    /\ timerPc' = "setShowRebalanceModal"
    /\ UNCHANGED <<activeTab, isRebalancing, rebalanceResult, portfolio,
                   auditLog, timers, lastEvent, resolved>>

TimerSetRebalanceResult ==
    /\ timerPc = "setRebalanceResult"
    /\ rebalanceResult' = CannedResult
    /\ timerPc' = "setShowRebalanceModal"
    /\ UNCHANGED <<activeTab, isRebalancing, showRebalanceModal, portfolio,
                   auditLog, timers, lastEvent, resolved>>

TimerSetShowRebalanceModal ==
    /\ timerPc = "setShowRebalanceModal"
    /\ showRebalanceModal' = TRUE
    /\ timerPc' = "idle"
    /\ resolved' = IF resolved < MaxResolved THEN resolved + 1 ELSE resolved
    /\ UNCHANGED <<activeTab, isRebalancing, rebalanceResult, portfolio,
                   auditLog, timers, lastEvent>>

TimerCallback ==
    \/ TimerSetIsRebalancing
    \/ TimerSetRebalanceResult
    \/ TimerSetShowRebalanceModal

\* "Review Later": onClick={() => setShowRebalanceModal(false)}
ReviewLater ==
    /\ timerPc = "idle"
    /\ ModalShown
    /\ showRebalanceModal' = FALSE
    /\ lastEvent' = "reviewLater"
    /\ UNCHANGED <<activeTab, isRebalancing, rebalanceResult, portfolio,
                   auditLog, timers, timerPc, resolved>>

\* (mutant) executing drops the pending entry from the log
ExecuteRebalanceDropsEntry ==
    /\ timerPc = "idle"
    /\ ModalShown
    /\ showRebalanceModal' = FALSE
    /\ activeTab' = "audit"
    /\ auditLog' = Tail(auditLog)
    /\ lastEvent' = "executeRebalance"
    /\ UNCHANGED <<isRebalancing, rebalanceResult, portfolio, timers, timerPc, resolved>>

\* (mutant) executing marks the pending entry executed
ExecuteRebalanceMarksExecuted ==
    /\ timerPc = "idle"
    /\ ModalShown
    /\ showRebalanceModal' = FALSE
    /\ activeTab' = "audit"
    /\ auditLog' = [auditLog EXCEPT ![1].status = "executed"]
    /\ lastEvent' = "executeRebalance"
    /\ UNCHANGED <<isRebalancing, rebalanceResult, portfolio, timers, timerPc, resolved>>

\* "Execute Rebalance": setShowRebalanceModal(false); setActiveTab('audit')
ExecuteRebalance ==
    /\ timerPc = "idle"
    /\ ModalShown
    /\ showRebalanceModal' = FALSE
    /\ activeTab' = "audit"
    /\ lastEvent' = "executeRebalance"
    /\ UNCHANGED <<isRebalancing, rebalanceResult, portfolio, auditLog, timers,
                   timerPc, resolved>>

Next ==
    \/ \E i \in 1..Len(Tabs) : setActiveTab(Tabs[i])
    \/ handleRebalance
    \/ TimerCallback
    \/ ReviewLater
    \/ ExecuteRebalance

Spec == Init /\ [][Next]_vars

\* The browser runs a scheduled timer callback, and a running callback runs on.
FairSpec == Spec /\ WF_vars(TimerCallback)

----------------------------------------------------------------------------
(* Helpers of the properties. *)

\* the symbols in the order of JavaScript's string comparison
SymbolOrder == <<"AAPL", "BTC", "ETH", "GOOGL", "MSFT", "SPY", "VBMFX">>

SymbolRank(s) == CHOOSE k \in 1..Len(SymbolOrder) : SymbolOrder[k] = s

\* a comes before b: greater |drift| first, equal |drift| by symbol
Precedes(a, b) ==
    \/ Abs(a.drift) > Abs(b.drift)
    \/ Abs(a.drift) = Abs(b.drift) /\ SymbolRank(a.symbol) < SymbolRank(b.symbol)

Holdings == { portfolio.holdings[i] : i \in 1..Len(portfolio.holdings) }

InDriftAlerts(h) == \E k \in 1..Len(driftAlerts) : driftAlerts[k] = h

ExceedsThreshold(h) == h.drift > 25 \/ h.drift < -25

ViolationExists == \E h \in Holdings : ExceedsThreshold(h)

----------------------------------------------------------------------------
(* C1: the list of violations (driftAlerts) is sorted by |drift|            *)
(* descending, holdings of equal |drift| ordered by symbol.                *)
(* Stated of the component's own holdings; the code filters the holdings   *)
(* and keeps their order.                                                  *)
C1_ViolationsSorted ==
    portfolio = ProgramPortfolio =>
        \A i, j \in 1..Len(driftAlerts) :
            i < j => Precedes(driftAlerts[i], driftAlerts[j])

(* C2: with the program's holdings drift is triggered, the first violation *)
(* (driftAlerts[0]) is BTC and the banner, which names BTC, reports BTC's   *)
(* drift: overweighted by 9.7%.                                            *)
C2_BannerReportsBTC ==
    (portfolio = ProgramPortfolio /\ activeTab = "dashboard") =>
        /\ BannerShown
        /\ driftAlerts[1].symbol = "BTC"
        /\ BannerText.subject = "BTC"
        /\ BannerText.weight = "over"
        /\ BannerText.by = <<9, 7>>

(* C3, as stated: a holding is in driftAlerts iff |drift| > 2.5 strictly;  *)
(* the banner with the 'Rebalance Now' button is present iff at least one  *)
(* holding is a violation; handleRebalance is only started when a          *)
(* violation exists.                                                       *)
C3_Original ==
    /\ \A h \in Holdings : InDriftAlerts(h) <=> ExceedsThreshold(h)
    /\ BannerShown <=> ViolationExists
    /\ (isRebalancing \/ timers > 0 \/ rebalanceResult # NULL) => ViolationExists

(* C3, amended: as C3, with the banner present iff at least one holding is *)
(* a violation and the dashboard tab is the active tab.                    *)
C3_ViolationIffExceeds ==
    /\ \A h \in Holdings : InDriftAlerts(h) <=> ExceedsThreshold(h)
    /\ \A k \in 1..Len(driftAlerts) : driftAlerts[k] \in Holdings
    /\ BannerShown <=> (ViolationExists /\ activeTab = "dashboard")
    /\ (isRebalancing \/ timers > 0 \/ rebalanceResult # NULL) => ViolationExists

\* holdings at exactly +2.5 and -2.5 beside a violation, and a rebalance started
C3_Witness ==
    /\ \E a, b, c \in Holdings :
          /\ a.drift = 25  /\ ~InDriftAlerts(a)
          /\ b.drift = -25 /\ ~InDriftAlerts(b)
          /\ c.drift = 26  /\ InDriftAlerts(c)
    /\ lastEvent = "handleRebalance"
    /\ isRebalancing

----------------------------------------------------------------------------
\* the rebalance is over, the plan is in rebalanceResult and the modal is open
PlanDelivered ==
    /\ ~isRebalancing
    /\ rebalanceResult # NULL
    /\ rebalanceResult.trades = ProgramAuditLog[1].trades
    /\ rebalanceResult.impact = ProgramAuditLog[1].impact
    /\ rebalanceResult.confidence = ProgramAuditLog[1].aiConfidence
    /\ showRebalanceModal

(* C4: once 'Rebalance Now' has been clicked (isRebalancing = true), under *)
(* fairness of the timer callback a state is eventually reached in which   *)
(* isRebalancing = false, rebalanceResult holds the plan (trades, impact,  *)
(* confidence) and showRebalanceModal = true.                              *)
C4_RebalanceResolves == isRebalancing ~> PlanDelivered

\* the callback has just completed for a click on 'Rebalance Now'
C4_Witness == PlanDelivered /\ lastEvent = "timer" /\ timerPc = "idle" /\ resolved = 1

----------------------------------------------------------------------------
(* Trades of a plan. *)

RECURSIVE SumValues(_, _)
SumValues(trades, side) ==
    IF trades = <<>> THEN 0
    ELSE (IF Head(trades).action = side THEN Head(trades).value ELSE 0)
         + SumValues(Tail(trades), side)

SelfFunding(trades) == SumValues(trades, "BUY") = SumValues(trades, "SELL")

(* C5: the plan returned by a rebalance is self-funding: the values of its *)
(* BUY trades sum to the same value as its SELL trades; the same holds for *)
(* the trades of every entry of the audit log.  Stated of the component's  *)
(* own portfolio, once a plan has been returned.                           *)
C5_PlanSelfFunding ==
    (rebalanceResult # NULL /\ portfolio = ProgramPortfolio) =>
        /\ SelfFunding(rebalanceResult.trades)
        /\ \A i \in 1..Len(auditLog) : SelfFunding(auditLog[i].trades)

(* C6: applying the returned plan reduces BTC's allocation below target    *)
(* plus tolerance: (BTC value - value of the plan's SELL BTC trade) /      *)
(* total value < 17.5% (15% + 2.5%).                                       *)
C6_BTCBelowTolerance ==
    (rebalanceResult # NULL /\ portfolio = ProgramPortfolio) =>
        \A h \in Holdings :
            h.symbol = "BTC" =>
                \E k \in 1..Len(rebalanceResult.trades) :
                    LET t == rebalanceResult.trades[k] IN
                    /\ t.action = "SELL"
                    /\ t.symbol = "BTC"
                    \* (value - sold) / total < 175/1000, as 40 * (value - sold)
                    \* < 7 * total to stay within 32-bit integers
                    /\ (h.target + DriftThreshold) % 25 = 0
                    /\ (h.value - t.value) * (1000 \div 25)
                         < ((h.target + DriftThreshold) \div 25) * portfolio.totalValue

----------------------------------------------------------------------------
(* The audit log. *)

\* the decision content of an entry: every field but its status
Content(e) ==
    [ id |-> e.id, timestamp |-> e.timestamp, action |-> e.action, reason |-> e.reason,
      trades |-> e.trades, impact |-> e.impact, aiConfidence |-> e.aiConfidence ]

(* C7: each time a rebalance resolves with a plan, one audit entry for     *)
(* that decision is appended to the audit log: after n resolved rebalances *)
(* the log has n more entries than initially, the newest of them holding   *)
(* the plan's trades.  Stated of the component's own portfolio, between    *)
(* timer callbacks, while the count of resolved rebalances is exact.       *)
C7_EveryDecisionRecorded ==
    (portfolio = ProgramPortfolio /\ timerPc = "idle" /\ resolved < MaxResolved) =>
        /\ Len(auditLog) = Len(ProgramAuditLog) + resolved
        /\ resolved > 0 =>
              \E i \in 1..Len(auditLog) :
                  /\ auditLog[i].id \notin { ProgramAuditLog[k].id : k \in 1..Len(ProgramAuditLog) }
                  /\ auditLog[i].trades = rebalanceResult.trades

\* a step keeps every entry, at its place, with its decision content
AuditPreserved ==
    /\ Len(auditLog') >= Len(auditLog)
    /\ \A i \in 1..Len(auditLog) : Content(auditLog'[i]) = Content(auditLog[i])

(* C8: across every sequence of UI actions (tab switches, Rebalance Now,   *)
(* timer completion, Review Later, Execute Rebalance) no existing audit    *)
(* log entry is removed or reordered and no entry's decision content (id,  *)
(* timestamp, action, reason, trades, impact, confidence) changes.         *)
C8_AppendOnly == [][AuditPreserved]_vars

\* plans delivered, reviewed later and executed, and the log as it was
C8_Witness ==
    /\ resolved >= 2
    /\ lastEvent = "executeRebalance"
    /\ activeTab = "audit"
    /\ auditLog = ProgramAuditLog

\* a step takes no entry (entries are told apart by id) from pending to executed
NoPendingToExecuted ==
    \A i \in 1..Len(auditLog) : \A j \in 1..Len(auditLog') :
        (auditLog[i].id = auditLog'[j].id /\ auditLog[i].status = "pending")
            => auditLog'[j].status # "executed"

(* C9: no audit entry goes from status pending directly to status          *)
(* executed: an entry that is pending in one state is not executed in the  *)
(* next, also when 'Execute Rebalance' is clicked on the pending entry's   *)
(* plan.                                                                   *)
C9_NoSkipToExecuted == [][NoPendingToExecuted]_vars

\* 'Execute Rebalance' was clicked on the plan of the pending entry
C9_Witness ==
    /\ lastEvent = "executeRebalance"
    /\ ~showRebalanceModal
    /\ activeTab = "audit"
    /\ \E i \in 1..Len(auditLog) :
          /\ auditLog[i].status = "pending"
          /\ rebalanceResult.trades = auditLog[i].trades

----------------------------------------------------------------------------
(* The hash chain the Readme and the specification describe:               *)
(* hash(entry_n) = H(serialize(entry_n) || hash(entry_{n-1})).             *)

HasHash(e) == "hash" \in DOMAIN e

\* a collision-free H: the pair of its two arguments
ChainHash(content, prev) == <<content, prev>>

GenesisHash == <<>>

\* verify(): every entry's hash recomputed from the genesis on
VerifyLedger(log) ==
    \A i \in 1..Len(log) :
        /\ HasHash(log[i])
        /\ (i > 1 => HasHash(log[i - 1]))
        /\ log[i].hash = ChainHash(Content(log[i]),
                                   IF i = 1 THEN GenesisHash ELSE log[i - 1].hash)

(* C10: the audit log is a verifiable hash chain: every audit entry        *)
(* carries a content hash computed over its content and the previous       *)
(* entry's hash, so that verification succeeds on the untouched ledger.    *)
C10_LedgerVerifies ==
    /\ \A i \in 1..Len(auditLog) : HasHash(auditLog[i])
    /\ VerifyLedger(auditLog)

----------------------------------------------------------------------------
(* C11: every trade in the plan returned by a rebalance has a value of at  *)
(* most 10% of the portfolio total value ($12,542.05 of $125,420.50); in   *)
(* particular the SELL BTC trade.                                          *)
C11_TradesWithinCap ==
    rebalanceResult # NULL =>
        \A k \in 1..Len(rebalanceResult.trades) :
            rebalanceResult.trades[k].value * 10 <= portfolio.totalValue

\* a plan has been returned and holds the SELL BTC trade
C11_Witness ==
    /\ rebalanceResult # NULL
    /\ timerPc = "idle"
    /\ \E k \in 1..Len(rebalanceResult.trades) :
          /\ rebalanceResult.trades[k].action = "SELL"
          /\ rebalanceResult.trades[k].symbol = "BTC"
          /\ rebalanceResult.trades[k].value > 0

----------------------------------------------------------------------------
(* The allocation by category. *)

Categories == <<"stocks", "crypto", "bonds", "etfs">>

\* the pie chart's rows: current and target percentage of each category
pieData ==
    << [name |-> "Stocks", value |-> portfolio.current.stocks, target |-> portfolio.target.stocks],
       [name |-> "Crypto", value |-> portfolio.current.crypto, target |-> portfolio.target.crypto],
       [name |-> "Bonds",  value |-> portfolio.current.bonds,  target |-> portfolio.target.bonds],
       [name |-> "ETFs",   value |-> portfolio.current.etfs,   target |-> portfolio.target.etfs] >>

RECURSIVE CategoryValue(_, _)
\* the sum of the values (cents) of the holdings of a category
CategoryValue(hs, c) ==
    IF hs = <<>> THEN 0
    ELSE (IF Head(hs).category = c THEN Head(hs).value ELSE 0)
         + CategoryValue(Tail(hs), c)

\* percent (a whole number) is value / total, to the half point a rounding to a
\* whole percentage leaves: 2 * |percent * total - 100 * value| <= total
IsShareOf(percent, value, total) ==
    2 * Abs(percent * total - 100 * value) <= total

(* C12: for every category (stocks, crypto, bonds, etfs) the portfolio's   *)
(* current allocation percentage equals the sum of the values of the       *)
(* holdings in that category divided by the portfolio total value, up to   *)
(* the rounding of the stored percentages.  Stated of the component's own  *)
(* portfolio.                                                              *)
C12_CurrentIsValueShare ==
    portfolio = ProgramPortfolio =>
        \A i \in 1..Len(Categories) :
            IsShareOf(pieData[i].value,
                      CategoryValue(portfolio.holdings, Categories[i]),
                      portfolio.totalValue)

----------------------------------------------------------------------------
(* C13: for every holding, drift equals its current allocation percentage  *)
(* minus its target percentage, with the sign preserved (positive when     *)
(* over target, negative when under target).                               *)
C13_DriftIsAllocationMinusTarget ==
    \A h \in Holdings :
        /\ h.drift = h.allocation - h.target
        /\ h.drift > 0 <=> h.allocation > h.target
        /\ h.drift < 0 <=> h.allocation < h.target

\* the component's own holdings, with a holding over and a holding under target
C13_Witness ==
    /\ portfolio = ProgramPortfolio
    /\ \E a, b \in Holdings : a.drift > 0 /\ b.drift < 0

----------------------------------------------------------------------------
\* a step that stores a plan where a plan is already stored stores the same plan
SamePlanAgain ==
    (rebalanceResult # NULL /\ rebalanceResult' # NULL) =>
        /\ rebalanceResult'.trades = rebalanceResult.trades
        /\ rebalanceResult'.impact = rebalanceResult.impact
        /\ rebalanceResult'.confidence = rebalanceResult.confidence

(* C14: planning is deterministic: two runs of the rebalance action on the *)
(* same portfolio and audit log produce identical plans (same trades in    *)
(* the same order, same impact, same confidence), whatever UI actions      *)
(* happened in between.                                                    *)
C14_PlanDeterministic == [][SamePlanAgain]_vars

\* a second run of the rebalance action has delivered its plan
C14_Witness ==
    /\ resolved >= 2
    /\ lastEvent = "timer"
    /\ timerPc = "idle"
    /\ rebalanceResult # NULL

----------------------------------------------------------------------------
(* C15: at most one rebalance is in flight at any time: while              *)
(* isRebalancing is true the 'Rebalance Now' button is disabled, so        *)
(* handleRebalance cannot be invoked again before the pending timer        *)
(* callback has run, and the number of pending timer callbacks never       *)
(* exceeds 1.                                                              *)
C15_OneRebalanceInFlight ==
    /\ timers <= 1
    /\ timers = 1 <=> isRebalancing
    /\ isRebalancing => ~ENABLED handleRebalance

\* a rebalance in flight with the banner and its disabled button on the page
C15_Witness ==
    /\ isRebalancing
    /\ timers = 1
    /\ BannerShown
    /\ resolved >= 1

----------------------------------------------------------------------------
\* a step never takes rebalanceResult back to null
PlanKept == rebalanceResult # NULL => rebalanceResult' # NULL

(* C16: in every reachable state, the states between the three state       *)
(* updates of the timer callback included, showRebalanceModal = true       *)
(* implies rebalanceResult is not null, so the modal never renders without *)
(* a plan; rebalanceResult, once set, is never reset to null.              *)
C16_ModalHasPlan ==
    /\ [](showRebalanceModal => rebalanceResult # NULL)
    /\ [][PlanKept]_vars

\* inside the first timer callback: the plan stored, the modal not yet open
C16_Witness ==
    /\ timerPc = "setShowRebalanceModal"
    /\ resolved = 0
    /\ rebalanceResult # NULL
    /\ ~showRebalanceModal

----------------------------------------------------------------------------
(* C17: isRebalancing and showRebalanceModal are never both true: the      *)
(* modal opens only after the rebalance has finished, and a new rebalance  *)
(* cannot be started while the result modal is open.  Stated of the        *)
(* component's own portfolio.                                              *)
C17_NotRebalancingWithModal ==
    portfolio = ProgramPortfolio => ~(isRebalancing /\ showRebalanceModal)

====
